---- MODULE Spec2Model ----
(***************************************************************************)
(* A model of evstats_WebApp.py: the daily record fetcher, the model-count *)
(* extractor, the monthly aggregator with its two memoization caches, the  *)
(* maker-metrics fetcher/normalizer and the latest-value summarizer.       *)
(*                                                                         *)
(* JSON values and table cells share one representation, a record          *)
(*   [t, n, s, d, l]                                                       *)
(* with t the kind ("null", "num", "str", "dict", "list"), n a number      *)
(* counted in halves (n = 5 is 2.5, n = 4 is 2), s a string, d a mapping   *)
(* from string keys to values, l a sequence of values.  Python's None and  *)
(* pandas' NaN are both the "null" value.                                  *)
(*                                                                         *)
(* Streamlit runs the script from the top on every interaction, so TODAY   *)
(* is evaluated once per page render, while the st.cache_data stores keep  *)
(* their entries for the whole session.  A call that raises stores nothing.*)
(* The order sort_values leaves between equal counts is not fixed for the  *)
(* monthly summary (any non-increasing arrangement may result); for the    *)
(* seven makers of the latest-value ranking equal values keep their order. *)
(* Series elements and model counts are scalars: numbers, strings, null.   *)
(***************************************************************************)
EXTENDS Integers, Sequences, FiniteSets, TLC

VARIABLES
    \* ---- the process and its environment
    clock,        \* the calendar date of the wall clock
    TODAY,        \* module global TODAY, evaluated when the script runs
    renders,      \* script runs (page renders) so far in the session
    \* ---- st.cache_data stores
    fetchCache,   \* fetch_daily: date string -> cached return value
    monthCache,   \* fetch_month_daily_aggregated: <<year, month>> -> cached return value
    \* ---- the running call of fetch_month_daily_aggregated
    pc,           \* "idle", "loop", "returned", "raised"
    year, month,  \* its arguments
    cur, end,     \* loop dates
    aggregated,   \* model -> total count
    daily_rows,   \* list of rows, each a mapping column -> cell
    ret,          \* what the call returned: [daily, summary]
    calls,        \* history: the date strings passed to fetch_daily by this call
    requests,     \* history: the date strings requested over HTTP by this call
    dayMaps,      \* history: the model-count map extracted for each day of this call
    \* ---- extract_car_models applied to one input
    exIn, exOut, expc,
    \* ---- fetch_maker_metrics / maker_latest_list
    mmUpstream,   \* what the maker-metrics endpoint answers
    mmCache,      \* fetch_maker_metrics: time_period -> cached return value
    mmArg,        \* time_period of the last call
    mmRet,        \* the table the last call returned
    mmLatest,     \* maker_latest_list of that table
    mmpc,         \* "idle", "returned", "ranked"
    mmCalls       \* calls of fetch_maker_metrics so far

monthVars  == <<clock, TODAY, renders, fetchCache, monthCache, pc, year, month,
                cur, end, aggregated, daily_rows, ret, calls, requests, dayMaps>>
exVars     == <<exIn, exOut, expc>>
makerVars  == <<mmUpstream, mmCache, mmArg, mmRet, mmLatest, mmpc, mmCalls>>
vars       == <<monthVars, exVars, makerVars>>

----------------------------------------------------------------------------
(* JSON values / cells *)

EmptyMap == <<>>

JNull    == [t |-> "null", n |-> 0, s |-> "", d |-> EmptyMap, l |-> <<>>]
JNum(h)  == [t |-> "num",  n |-> h, s |-> "", d |-> EmptyMap, l |-> <<>>]
JInt(k)  == JNum(k + k)
JStr(x)  == [t |-> "str",  n |-> 0, s |-> x,  d |-> EmptyMap, l |-> <<>>]
JDict(f) == [t |-> "dict", n |-> 0, s |-> "", d |-> f,        l |-> <<>>]
JList(q) == [t |-> "list", n |-> 0, s |-> "", d |-> EmptyMap, l |-> q]

IsDict(v) == v.t = "dict"
IsList(v) == v.t = "list"

\* a one-entry mapping and the union of two mappings with disjoint keys
Entry(k, v) == [x \in {k} |-> v]
Merge(f, g) == [x \in (DOMAIN f) \cup (DOMAIN g) |-> IF x \in DOMAIN f THEN f[x] ELSE g[x]]

\* v[key] in Python: a value, or an exception (KeyError on a dict without the
\* key, TypeError on anything that is not a dict when the key is a string)
Subscript(v, key) ==
    IF IsDict(v) /\ key \in DOMAIN v.d
    THEN [ok |-> TRUE, val |-> v.d[key]]
    ELSE [ok |-> FALSE, val |-> JNull]

\* daily_json[version]["cars"]["models"] inside its try block
ProbePath(daily_json, version) ==
    LET a == Subscript(daily_json, version)
        b == IF a.ok THEN Subscript(a.val, "cars") ELSE a
        c == IF b.ok THEN Subscript(b.val, "models") ELSE b
    IN  c

\* one turn of the loop over ("v2", "v1"): the models mapping it returns, if any
ProbeVersion(daily_json, version) ==
    LET p == ProbePath(daily_json, version)
    IN  IF p.ok /\ IsDict(p.val)
        THEN [found |-> TRUE, models |-> p.val.d]
        ELSE [found |-> FALSE, models |-> EmptyMap]

VERSIONS == <<"v2", "v1">>

\* a variant whose failed v2 probe ends the search: a v2 path that is there but
\* holds no mapping gives the empty map
ExtractStopsAtV2(daily_json) ==
    IF ~IsDict(daily_json) THEN EmptyMap
    ELSE LET first  == ProbeVersion(daily_json, VERSIONS[1])
             second == ProbeVersion(daily_json, VERSIONS[2])
         IN  IF first.found THEN first.models
             ELSE IF ProbePath(daily_json, VERSIONS[1]).ok THEN EmptyMap
             ELSE IF second.found THEN second.models
             ELSE EmptyMap

extract_car_models(daily_json) ==
    IF ~IsDict(daily_json) THEN EmptyMap
    ELSE LET first  == ProbeVersion(daily_json, VERSIONS[1])
             second == ProbeVersion(daily_json, VERSIONS[2])
         IN  IF first.found THEN first.models
             ELSE IF second.found THEN second.models
             ELSE EmptyMap

----------------------------------------------------------------------------
(* Calendar dates: records [y, m, d] *)

Date(y, m, d) == [y |-> y, m |-> m, d |-> d]

IsLeap(y) == (y % 4 = 0) /\ ((y % 100 # 0) \/ (y % 400 = 0))

\* calendar.monthrange(year, month)[1]
DaysInMonth(y, m) ==
    IF m = 2 THEN (IF IsLeap(y) THEN 29 ELSE 28)
    ELSE IF m \in {4, 6, 9, 11} THEN 30
    ELSE 31

\* a < b and a <= b on dates
DateLT(a, b) ==
    \/ a.y < b.y
    \/ a.y = b.y /\ a.m < b.m
    \/ a.y = b.y /\ a.m = b.m /\ a.d < b.d
DateLE(a, b) == a = b \/ DateLT(a, b)

\* min(end, TODAY)
DateMin(a, b) == IF DateLE(a, b) THEN a ELSE b

\* cur + dt.timedelta(days=1)
NextDay(a) ==
    IF a.d < DaysInMonth(a.y, a.m) THEN Date(a.y, a.m, a.d + 1)
    ELSE IF a.m < 12 THEN Date(a.y, a.m + 1, 1)
    ELSE Date(a.y + 1, 1, 1)

DIGITS == <<"0", "1", "2", "3", "4", "5", "6", "7", "8", "9">>
Digit(k) == DIGITS[k + 1]
Pad2(k) == Digit((k \div 10) % 10) \o Digit(k % 10)
Pad4(k) == Pad2(k \div 100) \o Pad2(k % 100)

\* cur.strftime("%Y-%m-%d")
DateStr(a) == Pad4(a.y) \o "-" \o Pad2(a.m) \o "-" \o Pad2(a.d)

----------------------------------------------------------------------------
(* int(c) *)

DigitValue(ch) == CHOOSE k \in 0..9 : Digit(k) = ch
IsDigitChar(ch) == \E k \in 0..9 : Digit(k) = ch
IsDigits(x) == Len(x) > 0 /\ \A i \in 1..Len(x) : IsDigitChar(SubSeq(x, i, i))

RECURSIVE DigitsValue(_)
DigitsValue(x) ==
    IF Len(x) = 0 THEN 0
    ELSE 10 * DigitsValue(SubSeq(x, 1, Len(x) - 1)) + DigitValue(SubSeq(x, Len(x), Len(x)))

\* truncation toward zero of a number given in halves
Trunc(h) == IF h >= 0 THEN h \div 2 ELSE -((-h) \div 2)

\* int(c): the integer, or an exception (ValueError for a string that is not
\* an integer literal, TypeError for None, a dict or a list)
IntOf(c) ==
    IF c.t = "num" THEN [ok |-> TRUE, v |-> Trunc(c.n)]
    ELSE IF c.t = "str" /\ IsDigits(c.s) THEN [ok |-> TRUE, v |-> DigitsValue(c.s)]
    ELSE [ok |-> FALSE, v |-> 0]

----------------------------------------------------------------------------
(* The daily endpoint and fetch_daily *)

HTTP_OK == 200

\* requests.get(...) raised (timeout, connection failure)
TransportError == [exc |-> TRUE, status |-> 0, parses |-> FALSE, body |-> JNull]
\* a response: its status, whether r.json() parses, and the parsed body
Response(status, parses, body) ==
    [exc |-> FALSE, status |-> status, parses |-> parses, body |-> body]

\* the body of fetch_daily, given what the endpoint answers
fetch_daily_uncached(resp) ==
    IF resp.exc THEN JNull
    ELSE IF resp.status # HTTP_OK THEN JNull
    ELSE IF ~resp.parses THEN JNull
    ELSE IF IsDict(resp.body) THEN resp.body
    ELSE JNull

ModelsDoc(version, models) ==
    Entry(version, JDict(Entry("cars", JDict(Entry("models", models)))))

DocA      == JDict(ModelsDoc("v2", JDict(Entry("A", JInt(1)))))
DocAB     == JDict(Merge(ModelsDoc("v2", JStr("n/a")),
                         ModelsDoc("v1", JDict(Merge(Entry("A", JInt(2)), Entry("B", JInt(3)))))))
DocNoPath == JDict(Entry("error", JStr("no data")))
DocDate   == JDict(ModelsDoc("v2", JDict(Entry("Date", JInt(4)))))
DocFrac   == JDict(ModelsDoc("v2", JDict(Entry("B", JNum(5)))))
DocBad    == JDict(ModelsDoc("v2", JDict(Entry("A", JStr("x")))))
DocNull   == JDict(ModelsDoc("v2", JDict(Entry("B", JNull))))

DailyDocs == {DocA, DocAB, DocNoPath, DocDate, DocFrac, DocBad, DocNull}

FailedResponses ==
    { TransportError,
      Response(404, TRUE, JDict(Entry("error", JStr("not found")))),
      Response(HTTP_OK, FALSE, JNull),
      Response(HTTP_OK, TRUE, JList(<<>>)) }

\* the days of a month for which the upstream has published a document
MaxDataDay == 2

\* what the daily endpoint may answer for a date
DailyResponses(a) ==
    IF a.d <= MaxDataDay
    THEN FailedResponses \cup { Response(HTTP_OK, TRUE, doc) : doc \in DailyDocs }
    ELSE FailedResponses

----------------------------------------------------------------------------
(* fetch_month_daily_aggregated *)

\* the (year, month) arguments the page passes, and the dates the script runs on
CallArgs == { <<2023, 2>>, <<2024, 2>>, <<2024, 3>>, <<2024, 4>> }
MaxTodayDay == 2
TodayDates == { Date(2024, 3, d) : d \in 1..MaxTodayDay }

\* start > TODAY
IsFuture(start, today) == DateLT(today, start)

\* a variant that forgets the clamp: the iteration runs to the end of the month
ClampEndUnclamped(last, today) == last

\* end = min(end, TODAY)
ClampEnd(last, today) == DateMin(last, today)

\* `if js`: None and the empty dict are falsy
Truthy(js) == IsDict(js) /\ DOMAIN js.d # {}

\* models = extract_car_models(js) if js else {}
ModelsOf(js) == IF Truthy(js) THEN extract_car_models(js) ELSE EmptyMap

\* row = {"Date": date_str}; then row[m] = c for every model of the day
RowOf(date_str, models) ==
    [k \in {"Date"} \cup DOMAIN models |->
        IF k \in DOMAIN models THEN models[k] ELSE JStr(date_str)]

\* int(c) succeeds for every count of the day
CountsConvert(models) == \A m \in DOMAIN models : IntOf(models[m]).ok

\* aggregated[m] = aggregated.get(m, 0) + int(c) for every model of the day
Accumulate(agg, models) ==
    [m \in (DOMAIN agg) \cup (DOMAIN models) |->
        (IF m \in DOMAIN agg THEN agg[m] ELSE 0)
        + (IF m \in DOMAIN models THEN IntOf(models[m]).v ELSE 0)]

\* the columns of pd.DataFrame(daily_rows): the union of the rows' keys
ColumnsOf(rows) == UNION { DOMAIN rows[i] : i \in 1..Len(rows) }

\* pd.DataFrame(daily_rows).fillna(0): a missing or null cell becomes 0
Densify(rows) ==
    [i \in 1..Len(rows) |->
        [c \in ColumnsOf(rows) |->
            IF c \in DOMAIN rows[i] /\ rows[i][c].t # "null" THEN rows[i][c] ELSE JInt(0)]]

\* the orders sort_values("Count", ascending=False) may leave the totals in:
\* every arrangement with non-increasing counts (the order of ties is not fixed)
SummaryOrders(agg) ==
    LET n == Cardinality(DOMAIN agg)
    IN  { q \in [1..n -> DOMAIN agg] :
            /\ \A i, j \in 1..n : i # j => q[i] # q[j]
            /\ \A i \in 1..n : i < n => agg[q[i]] >= agg[q[i + 1]] }

SummaryRows(agg, q) == [i \in 1..Len(q) |-> [Model |-> q[i], Count |-> agg[q[i]]]]

\* pd.DataFrame(), pd.DataFrame()
EmptyResult == [daily |-> <<>>, summary |-> <<>>]

Stored(cache, key, value) == [k \in (DOMAIN cache) \cup {key} |-> IF k = key THEN value ELSE cache[k]]

\* a call of fetch_month_daily_aggregated(y, m) up to the loop: a cache hit
\* returns the stored value, a future month returns empty tables
Call(y, m) ==
    /\ pc = "idle"
    /\ year' = y
    /\ month' = m
    /\ calls' = <<>>
    /\ requests' = <<>>
    /\ dayMaps' = <<>>
    /\ LET start == Date(y, m, 1)
           last  == Date(y, m, DaysInMonth(y, m))
       IN  IF <<y, m>> \in DOMAIN monthCache
           THEN /\ ret' = monthCache[<<y, m>>]
                /\ pc' = "returned"
                /\ UNCHANGED <<monthCache, cur, end, aggregated, daily_rows>>
           ELSE IF IsFuture(start, TODAY)
           THEN /\ ret' = EmptyResult
                /\ monthCache' = Stored(monthCache, <<y, m>>, EmptyResult)
                /\ pc' = "returned"
                /\ UNCHANGED <<cur, end, aggregated, daily_rows>>
           ELSE /\ cur' = start
                /\ end' = ClampEnd(last, TODAY)
                /\ aggregated' = EmptyMap
                /\ daily_rows' = <<>>
                /\ pc' = "loop"
                /\ UNCHANGED <<ret, monthCache>>
    /\ UNCHANGED <<clock, TODAY, renders, fetchCache, exVars, makerVars>>

\* one turn of `while cur <= end`: fetch_daily (memoized by date string),
\* extract, record the row, add to the totals; int(c) may raise
FetchDay ==
    /\ pc = "loop"
    /\ DateLE(cur, end)
    /\ \E resp \in DailyResponses(cur) :
         LET date_str == DateStr(cur)
             hit      == date_str \in DOMAIN fetchCache
             js       == IF hit THEN fetchCache[date_str] ELSE fetch_daily_uncached(resp)
             models   == ModelsOf(js)
         IN  /\ fetchCache' = IF hit THEN fetchCache ELSE Stored(fetchCache, date_str, js)
             /\ calls' = Append(calls, date_str)
             /\ requests' = IF hit THEN requests ELSE Append(requests, date_str)
             /\ dayMaps' = Append(dayMaps, models)
             /\ IF CountsConvert(models)
                THEN /\ aggregated' = Accumulate(aggregated, models)
                     /\ daily_rows' = Append(daily_rows, RowOf(date_str, models))
                     /\ cur' = NextDay(cur)
                     /\ pc' = "loop"
                ELSE /\ pc' = "raised"
                     /\ UNCHANGED <<aggregated, daily_rows, cur>>
    /\ UNCHANGED <<clock, TODAY, renders, monthCache, year, month, end, ret,
                   exVars, makerVars>>

\* after the loop: the dense daily table and the sorted summary; the result
\* is memoized under (year, month)
Finish ==
    /\ pc = "loop"
    /\ ~DateLE(cur, end)
    /\ \E q \in SummaryOrders(aggregated) :
         LET result == [daily |-> Densify(daily_rows), summary |-> SummaryRows(aggregated, q)]
         IN  /\ ret' = result
             /\ monthCache' = Stored(monthCache, <<year, month>>, result)
    /\ pc' = "returned"
    /\ UNCHANGED <<clock, TODAY, renders, fetchCache, year, month, cur, end,
                   aggregated, daily_rows, calls, requests, dayMaps, exVars, makerVars>>

----------------------------------------------------------------------------
(* The page: one script run evaluates TODAY and calls the aggregator *)

MonthStart(today) ==
    /\ clock = today
    /\ TODAY = today
    /\ renders = 1
    /\ fetchCache = EmptyMap
    /\ monthCache = EmptyMap
    /\ pc = "idle"
    /\ year = 0
    /\ month = 0
    /\ cur = today
    /\ end = today
    /\ aggregated = EmptyMap
    /\ daily_rows = <<>>
    /\ ret = EmptyResult
    /\ calls = <<>>
    /\ requests = <<>>
    /\ dayMaps = <<>>

ExtractIdle ==
    /\ exIn = JNull
    /\ exOut = EmptyMap
    /\ expc = "idle"

MakerIdle ==
    /\ mmUpstream = TransportError
    /\ mmCache = EmptyMap
    /\ mmArg = ""
    /\ mmRet = [cols |-> <<>>, rows |-> <<>>]
    /\ mmLatest = <<>>
    /\ mmpc = "idle"
    /\ mmCalls = 0

Init ==
    /\ \E today \in TodayDates : MonthStart(today)
    /\ ExtractIdle
    /\ MakerIdle

Next ==
    \/ \E a \in CallArgs : Call(a[1], a[2])
    \/ FetchDay
    \/ Finish

Spec == Init /\ [][Next]_vars

----------------------------------------------------------------------------
(* A session: the script runs again on every interaction, re-evaluating     *)
(* TODAY, while the st.cache_data stores live on                            *)

MaxRenders == 2

\* midnight passes
Tick ==
    /\ clock.d < MaxTodayDay
    /\ clock' = NextDay(clock)
    /\ UNCHANGED <<TODAY, renders, fetchCache, monthCache, pc, year, month, cur, end,
                   aggregated, daily_rows, ret, calls, requests, dayMaps, exVars, makerVars>>

\* the next script run: TODAY = dt.date.today()
Rerun ==
    /\ pc \in {"returned", "raised"}
    /\ renders < MaxRenders
    /\ renders' = renders + 1
    /\ TODAY' = clock
    /\ pc' = "idle"
    /\ UNCHANGED <<clock, fetchCache, monthCache, year, month, cur, end,
                   aggregated, daily_rows, ret, calls, requests, dayMaps, exVars, makerVars>>

\* the months the user selects during the session
SessionArgs == { <<2024, 2>>, <<2024, 3>>, <<2024, 4>> }

NextSession ==
    \/ \E a \in SessionArgs : Call(a[1], a[2])
    \/ FetchDay
    \/ Finish
    \/ Tick
    \/ Rerun

SpecSession == Init /\ [][NextSession]_vars

----------------------------------------------------------------------------
(* Properties of fetch_month_daily_aggregated *)

\* the day of the month at which the iteration is to stop: min(last-of-month, today)
LastFetchDay(y, m, today) ==
    IF today.y = y /\ today.m = m THEN today.d ELSE DaysInMonth(y, m)

\* the date strings of the first n days of a month
MonthDates(y, m, n) == [i \in 1..n |-> DateStr(Date(y, m, i))]

\* the date strings from the first of the month to min(last-of-month, today)
DatesUpToToday(y, m, today) ==
    { DateStr(Date(y, m, d)) :
        d \in { e \in 1..DaysInMonth(y, m) : DateLE(Date(y, m, e), today) } }

\* C1: the aggregator asks fetch_daily (and so the daily endpoint) only for
\* dates from the first of the month to min(last-of-month, current date); for
\* a month that starts after the current date it fetches nothing and returns
\* an empty daily table and an empty summary.
ClampedToToday ==
    pc # "idle" =>
        LET allowed == DatesUpToToday(year, month, TODAY)
        IN  /\ \A i \in 1..Len(calls) : calls[i] \in allowed
            /\ \A i \in 1..Len(requests) : requests[i] \in allowed
            /\ DateLT(TODAY, Date(year, month, 1)) =>
                  /\ calls = <<>>
                  /\ requests = <<>>
                  /\ pc = "returned"
                  /\ ret.daily = <<>>
                  /\ ret.summary = <<>>

\* a call for the running month has returned after fetching up to today only
ClampedToTodayWitness ==
    /\ pc = "returned"
    /\ year = TODAY.y
    /\ month = TODAY.m
    /\ TODAY.d < DaysInMonth(year, month)
    /\ requests = MonthDates(year, month, TODAY.d)


\* the model names seen in the month: the union of the per-day maps' keys
ModelsSeen == UNION { DOMAIN dayMaps[i] : i \in 1..Len(dayMaps) }

RECURSIVE SumSeq(_)
SumSeq(q) == IF Len(q) = 0 THEN 0 ELSE Head(q) + SumSeq(Tail(q))

\* a model's count of day i as the returned daily table records it, in halves
RecordedCount(i, m) == IF m \in DOMAIN dayMaps[i] THEN ret.daily[i][m].n ELSE 0
RecordedTotal(m) == SumSeq([i \in 1..Len(ret.daily) |-> RecordedCount(i, m)])

\* the totals the loop accumulates over a sequence of per-day maps
RECURSIVE AccumulateAll(_)
AccumulateAll(maps) ==
    IF Len(maps) = 0 THEN EmptyMap
    ELSE Accumulate(AccumulateAll(SubSeq(maps, 1, Len(maps) - 1)), maps[Len(maps)])

Swapped(q, i, j) ==
    [k \in 1..Len(q) |-> IF k = i THEN q[j] ELSE IF k = j THEN q[i] ELSE q[k]]

Reversed(q) == [k \in 1..Len(q) |-> q[Len(q) + 1 - k]]

\* C2: the summary has exactly one entry per model seen in the month, the
\* entry's count is the sum of the model's per-day counts as the daily rows
\* record them, and the totals do not depend on the order in which the days
\* are processed (here: any two days exchanged, or the days reversed).
SummaryIsSumOfDailyCounts ==
    (pc = "returned" /\ ~DateLT(TODAY, Date(year, month, 1))) =>
        /\ Len(ret.summary) = Cardinality(ModelsSeen)
        /\ { ret.summary[i].Model : i \in 1..Len(ret.summary) } = ModelsSeen
        /\ \A i \in 1..Len(ret.summary) :
              2 * ret.summary[i].Count = RecordedTotal(ret.summary[i].Model)
        /\ AccumulateAll(Reversed(dayMaps)) = AccumulateAll(dayMaps)
        /\ \A i, j \in 1..Len(dayMaps) :
              i < j => AccumulateAll(Swapped(dayMaps, i, j)) = AccumulateAll(dayMaps)

\* C3: every row of the daily table has the same columns, the Date column and
\* one column per model seen in the month; the cell of a model present that
\* day holds the day's count and the cell of a model absent that day holds 0.
DenseDailyTable ==
    (pc = "returned" /\ ~DateLT(TODAY, Date(year, month, 1))) =>
        \A i \in 1..Len(ret.daily) :
            /\ ModelsSeen \subseteq DOMAIN ret.daily[i]
            /\ DOMAIN ret.daily[i] \subseteq ModelsSeen \cup {"Date"}
            /\ \A m \in ModelsSeen :
                  ret.daily[i][m] = IF m \in DOMAIN dayMaps[i] THEN dayMaps[i][m] ELSE JInt(0)

\* C7 (monthly aggregator): whatever the daily endpoint answers, the call
\* returns a result and never raises to the page.
AggregatorNeverRaises == pc # "raised"

\* C9: for a month that has started, the days are fetched one at a time in
\* ascending order, the daily table has one row per date from the first of
\* the month to min(last-of-month, today) in that order, each row's Date is
\* the ISO string of its date, a day whose fetch failed has a row without
\* counts, and the summary is empty when every day failed.
OneRowPerDateInOrder ==
    /\ pc \in {"loop", "returned"} =>
          calls = MonthDates(year, month, Len(calls))
    /\ (pc = "returned" /\ ~DateLT(TODAY, Date(year, month, 1))) =>
          LET n == LastFetchDay(year, month, TODAY)
          IN  /\ calls = MonthDates(year, month, n)
              /\ Len(ret.daily) = n
              /\ \A i \in 1..n :
                    /\ ret.daily[i]["Date"] = JStr(DateStr(Date(year, month, i)))
                    /\ fetchCache[calls[i]] = JNull =>
                          \A c \in DOMAIN ret.daily[i] \ {"Date"} : ret.daily[i][c] = JInt(0)
              /\ (\A i \in 1..n : fetchCache[calls[i]] = JNull) => ret.summary = <<>>

\* C10: in a session, every call that returns does so with one row per date
\* from the first of the month to min(last-of-month, the date of the script
\* run that made the call), and with no row for a month that has not started.
RowsFollowCurrentDate ==
    pc = "returned" =>
        LET n == IF DateLT(TODAY, Date(year, month, 1)) THEN 0
                 ELSE LastFetchDay(year, month, TODAY)
        IN  /\ Len(ret.daily) = n
            /\ \A i \in 1..Len(ret.daily) :
                  ret.daily[i]["Date"].t = "str" =>
                      ret.daily[i]["Date"] = JStr(DateStr(Date(year, month, i)))


----------------------------------------------------------------------------
(* extract_car_models applied to documents of every shape *)

Leaves ==
    { JNull, JInt(7), JStr("models"), JList(<<>>), JDict(EmptyMap),
      JDict(Entry("ModelC", JInt(2))),
      JDict(Merge(Entry("ModelA", JInt(3)), Entry("ModelB", JInt(1)))) }
CarsValues == Leaves \cup { JDict(Entry("models", x)) : x \in Leaves }
VersionValues == Leaves \cup { JDict(Entry("cars", x)) : x \in CarsValues }
VersionParts(version) == { EmptyMap } \cup { Entry(version, x) : x \in VersionValues }

ExtractInputs ==
    { JNull, JInt(7), JStr("v2"), JList(<<>>) }
    \cup { JDict(Merge(a, b)) : a \in VersionParts("v2"), b \in VersionParts("v1") }

InitExtract ==
    /\ MonthStart(Date(2024, 3, 1))
    /\ MakerIdle
    /\ exIn \in ExtractInputs
    /\ exOut = EmptyMap
    /\ expc = "ready"

ApplyExtract ==
    /\ expc = "ready"
    /\ exOut' = extract_car_models(exIn)
    /\ expc' = "done"
    /\ UNCHANGED <<exIn, monthVars, makerVars>>

NextExtract == ApplyExtract

SpecExtract == InitExtract /\ [][NextExtract]_vars

\* the value at version -> "cars" -> "models" exists and is a mapping
HasModelsMap(doc, version) ==
    /\ IsDict(doc)
    /\ version \in DOMAIN doc.d
    /\ IsDict(doc.d[version])
    /\ "cars" \in DOMAIN doc.d[version].d
    /\ IsDict(doc.d[version].d["cars"])
    /\ "models" \in DOMAIN doc.d[version].d["cars"].d
    /\ IsDict(doc.d[version].d["cars"].d["models"])

ModelsMapAt(doc, version) == doc.d[version].d["cars"].d["models"].d

\* C4: for every input the extractor returns the mapping at v2 -> cars ->
\* models when there is one, otherwise the mapping at v1 -> cars -> models
\* when there is one, otherwise the empty map; a v2 path that does not end in
\* a mapping does not stop the v1 probe.
ExtractorFallsBack ==
    expc = "done" =>
        exOut = IF HasModelsMap(exIn, "v2") THEN ModelsMapAt(exIn, "v2")
                ELSE IF HasModelsMap(exIn, "v1") THEN ModelsMapAt(exIn, "v1")
                ELSE EmptyMap

\* the v2 path exists and ends in a string, and the v1 counts were returned
ExtractorFallsBackWitness ==
    /\ expc = "done"
    /\ ProbePath(exIn, "v2").ok
    /\ ~HasModelsMap(exIn, "v2")
    /\ HasModelsMap(exIn, "v1")
    /\ exOut = Merge(Entry("ModelA", JInt(3)), Entry("ModelB", JInt(1)))


----------------------------------------------------------------------------
(* fetch_maker_metrics and maker_latest_list *)

MAKERS == <<"total", "byd", "volvo", "hyundai", "tesla", "geely", "leapmotor">>
TIME_PERIODS == {"month", "quarter", "year"}

MONTH_WINDOW == 18
QUARTER_WINDOW == 12
YEAR_WINDOW == 10

\* the N of df.tail(N)
Window(time_period) ==
    IF time_period = "month" THEN MONTH_WINDOW
    ELSE IF time_period = "quarter" THEN QUARTER_WINDOW
    ELSE YEAR_WINDOW

\* a table: its column names in order and its rows (column -> cell)
Frame(cols, rows) == [cols |-> cols, rows |-> rows]
\* pd.DataFrame()
EmptyFrame == Frame(<<>>, <<>>)
\* df.empty: no rows or no columns
FrameEmpty(df) == df.rows = <<>> \/ df.cols = <<>>

\* v.get(key, default) on a dict
Get(v, key, default) == IF key \in DOMAIN v.d THEN v.d[key] ELSE default

\* data = data["data"] when data is a dict holding a dict under "data"
UnwrapData(data) ==
    IF IsDict(data) /\ "data" \in DOMAIN data.d /\ IsDict(data.d["data"])
    THEN data.d["data"]
    ELSE data

\* [None] * len(periods)
NullColumn(n) == [i \in 1..n |-> JNull]

\* data is a dict: the maker's series when it is a list as long as periods
DictColumn(data, n, maker) ==
    LET series == Get(data, maker, JList(<<>>))
    IN  IF IsList(series) /\ Len(series.l) = n THEN series.l ELSE NullColumn(n)

\* data is a list of rows: entry.get(maker) by position, None when data[i]
\* raises IndexError or the entry has no get
RecordsColumn(data, n, maker) ==
    [i \in 1..n |->
        IF i <= Len(data.l) /\ IsDict(data.l[i]) THEN Get(data.l[i], maker, JNull) ELSE JNull]

MakerColumn(data, n, maker) ==
    IF IsDict(data) THEN DictColumn(data, n, maker) ELSE RecordsColumn(data, n, maker)

\* pd.to_numeric(..., errors="coerce") on one cell: a number stays, a string
\* holding a number is parsed, anything else is NaN
ToNumeric(cell) ==
    IF cell.t = "num" THEN cell
    ELSE IF cell.t = "str" /\ IsDigits(cell.s) THEN JInt(DigitsValue(cell.s))
    ELSE JNull

\* a variant without the fill: NaN stays
FillNaSkipped(cell) == cell

\* .fillna(0) on one cell
FillNa(cell) == IF cell.t = "null" THEN JInt(0) ELSE cell

DROPPED == {"acc", "bevshare"}
IsKept(col) == col \notin DROPPED

\* the column names after the drop of acc / bevshare
ColumnNames == SelectSeq(<<"Period">> \o MAKERS, IsKept)

IsMaker(col) == \E k \in 1..Len(MAKERS) : MAKERS[k] = col

\* the frame before truncation: Period plus one numeric column per maker
FullRows(periods, data) ==
    LET n == Len(periods)
    IN  [i \in 1..n |->
            [c \in { ColumnNames[k] : k \in 1..Len(ColumnNames) } |->
                IF IsMaker(c) THEN FillNa(ToNumeric(MakerColumn(data, n, c)[i]))
                ELSE periods[i]]]

\* a variant that keeps the first n rows (df.head(n))
HeadRows(rows, n) == IF Len(rows) <= n THEN rows ELSE SubSeq(rows, 1, n)

\* df.tail(n).reset_index(drop=True)
TailRows(rows, n) ==
    IF Len(rows) <= n THEN rows ELSE SubSeq(rows, Len(rows) - n + 1, Len(rows))

\* the body of fetch_maker_metrics, given what the endpoint answers
fetch_maker_metrics_uncached(time_period, resp) ==
    IF time_period \notin TIME_PERIODS THEN EmptyFrame
    ELSE IF resp.exc THEN EmptyFrame
    ELSE IF resp.status # HTTP_OK THEN EmptyFrame
    ELSE IF ~resp.parses THEN EmptyFrame
    ELSE IF ~IsDict(resp.body) THEN EmptyFrame
    ELSE LET periods == Get(resp.body, "periods", JList(<<>>))
             data    == UnwrapData(Get(resp.body, "data", JDict(EmptyMap)))
         IN  IF ~IsList(periods) \/ ~(IsDict(data) \/ IsList(data)) THEN EmptyFrame
             ELSE Frame(ColumnNames, TailRows(FullRows(periods.l, data), Window(time_period)))

\* a variant that reads the first row (df.iloc[0])
LatestRowsOfFirst(df) ==
    LET latest == df.rows[1]
        present == SelectSeq(MAKERS, LAMBDA mk : \E k \in 1..Len(df.cols) : df.cols[k] = mk)
    IN  [k \in 1..Len(present) |->
            [Maker |-> present[k], Latest |-> IntOf(latest[present[k]]).v]]

\* out.append({"Maker": maker, "Latest": int(latest[maker])}) for the makers
\* that are columns
LatestRows(df) ==
    LET latest == df.rows[Len(df.rows)]
        present == SelectSeq(MAKERS, LAMBDA mk : \E k \in 1..Len(df.cols) : df.cols[k] = mk)
    IN  [k \in 1..Len(present) |->
            [Maker |-> present[k], Latest |-> IntOf(latest[present[k]]).v]]

\* sort_values("Latest", ascending=False) of at most seven rows: rows with
\* equal values keep their order
RECURSIVE InsertDesc(_, _)
InsertDesc(sorted, x) ==
    IF Len(sorted) = 0 THEN <<x>>
    ELSE IF Head(sorted).Latest >= x.Latest THEN <<Head(sorted)>> \o InsertDesc(Tail(sorted), x)
    ELSE <<x>> \o sorted

RECURSIVE SortDesc(_)
SortDesc(rows) ==
    IF Len(rows) = 0 THEN <<>>
    ELSE InsertDesc(SortDesc(SubSeq(rows, 1, Len(rows) - 1)), rows[Len(rows)])

maker_latest_list(df) == IF FrameEmpty(df) THEN <<>> ELSE SortDesc(LatestRows(df))


----------------------------------------------------------------------------
(* The maker-metrics endpoint *)

MaxPeriods == 19
MaxMakerCalls == 2

\* the k-th period label, in chronological order: "2023-01", "2023-02", ...
PeriodLabel(k) == Pad4(2023 + ((k - 1) \div 12)) \o "-" \o Pad2(((k - 1) % 12) + 1)

AscPeriods(n)  == [i \in 1..n |-> JStr(PeriodLabel(i))]
DescPeriods(n) == [i \in 1..n |-> JStr(PeriodLabel(n + 1 - i))]

\* the shapes a maker's series takes
SHAPE_ORDER == <<"absent", "scalar", "short", "long", "ints", "mixed">>
\* in variant v the k-th maker's series has the shape (k + v) of the cycle
ShapeOf(k, v) == SHAPE_ORDER[((k + v) % Len(SHAPE_ORDER)) + 1]

IntValue(i, k) == JInt(10 * i + k)
MixedValue(i, k) ==
    LET r == (i + k) % 5
    IN  IF r = 0 THEN IntValue(i, k)
        ELSE IF r = 1 THEN JNum(2 * (10 * i + k) + 1)
        ELSE IF r = 2 THEN JStr(Pad2(i))
        ELSE IF r = 3 THEN JStr("n/a")
        ELSE JNull

SeriesOf(shape, n, k) ==
    IF shape = "scalar" THEN IntValue(1, k)
    ELSE IF shape = "short" THEN JList([i \in 1..(IF n > 0 THEN n - 1 ELSE 2) |-> IntValue(i, k)])
    ELSE IF shape = "long" THEN JList([i \in 1..(n + 1) |-> IntValue(i, k)])
    ELSE IF shape = "ints" THEN JList([i \in 1..n |-> IntValue(i, k)])
    ELSE JList([i \in 1..n |-> MixedValue(i, k)])

MakerIndex(maker) == CHOOSE k \in 1..Len(MAKERS) : MAKERS[k] = maker

\* maker -> series, for the makers whose series is not absent, plus an "acc" field
DataDict(n, v) ==
    LET present == { MAKERS[k] : k \in { j \in 1..Len(MAKERS) : ShapeOf(j, v) # "absent" } }
    IN  [key \in present \cup {"acc"} |->
            IF key = "acc" THEN JList([i \in 1..n |-> IntValue(i, 0)])
            ELSE SeriesOf(ShapeOf(MakerIndex(key), v), n, MakerIndex(key))]

\* per-period records, every third one malformed, holding the odd makers only
DataRecords(len) ==
    [i \in 1..len |->
        IF i % 3 = 0 THEN JStr("n/a")
        ELSE JDict([mk \in { MAKERS[k] : k \in {1, 3, 5, 7} } |-> MixedValue(i, MakerIndex(mk))])]

Body(periods, data) == JDict(Merge(Entry("periods", periods), Entry("data", data)))

\* periods ["2024-01", "2024-02"], data {"tesla": [10, 20]}
ExampleBody ==
    Body(JList(<<JStr("2024-01"), JStr("2024-02")>>),
         JDict(Entry("tesla", JList(<<JInt(10), JInt(20)>>))))

MakerBodies ==
    { Body(JList(p), JDict(DataDict(Len(p), v))) :
        p \in { AscPeriods(n) : n \in 0..MaxPeriods } \cup { DescPeriods(n) : n \in 0..MaxPeriods },
        v \in 0..(Len(SHAPE_ORDER) - 1) }
    \cup { Body(JList(AscPeriods(n)), JDict(Entry("data", JDict(DataDict(n, v))))) :
             n \in 0..MaxPeriods, v \in {0, 3} }
    \cup { Body(JList(AscPeriods(n)), JList(DataRecords(n - short))) :
             n \in 1..MaxPeriods, short \in {0, 1} }
    \cup { ExampleBody,
           JDict(Entry("periods", JList(AscPeriods(2)))),
           JDict(Entry("data", JDict(DataDict(0, 0)))),
           Body(JStr("2024"), JDict(DataDict(1, 0))),
           Body(JList(AscPeriods(2)), JStr("n/a")) }

MakerResponses == FailedResponses \cup { Response(HTTP_OK, TRUE, b) : b \in MakerBodies }

InitMaker ==
    /\ MonthStart(Date(2024, 3, 1))
    /\ ExtractIdle
    /\ mmUpstream \in MakerResponses
    /\ mmCache = EmptyMap
    /\ mmArg = ""
    /\ mmRet = EmptyFrame
    /\ mmLatest = <<>>
    /\ mmpc = "idle"
    /\ mmCalls = 0

\* fetch_maker_metrics(time_period), memoized by its argument
CallMaker(time_period) ==
    /\ mmpc \in {"idle", "ranked"}
    /\ mmCalls < MaxMakerCalls
    /\ mmCalls' = mmCalls + 1
    /\ mmArg' = time_period
    /\ LET hit == time_period \in DOMAIN mmCache
           df  == IF hit THEN mmCache[time_period]
                  ELSE fetch_maker_metrics_uncached(time_period, mmUpstream)
       IN  /\ mmRet' = df
           /\ mmCache' = IF hit THEN mmCache ELSE Stored(mmCache, time_period, df)
    /\ mmpc' = "returned"
    /\ UNCHANGED <<mmUpstream, mmLatest, monthVars, exVars>>

\* maker_latest_list of the table just returned
Rank ==
    /\ mmpc = "returned"
    /\ mmLatest' = maker_latest_list(mmRet)
    /\ mmpc' = "ranked"
    /\ UNCHANGED <<mmUpstream, mmCache, mmArg, mmRet, mmCalls, monthVars, exVars>>

NextMaker ==
    \/ \E tp \in TIME_PERIODS \cup {"week"} : CallMaker(tp)
    \/ Rank

SpecMaker == InitMaker /\ [][NextMaker]_vars


----------------------------------------------------------------------------
(* Properties of fetch_maker_metrics and maker_latest_list *)

MakerSet == { MAKERS[k] : k \in 1..Len(MAKERS) }

\* the periods and the (unwrapped) data of the upstream response
UpPeriods == Get(mmUpstream.body, "periods", JList(<<>>))
UpData ==
    LET data == Get(mmUpstream.body, "data", JDict(EmptyMap))
    IN  IF IsDict(data) /\ "data" \in DOMAIN data.d /\ IsDict(data.d["data"])
        THEN data.d["data"] ELSE data

\* the last call was answered from a well-formed response
MakerSuccess ==
    /\ mmpc \in {"returned", "ranked"}
    /\ mmArg \in {"month", "quarter", "year"}
    /\ ~mmUpstream.exc
    /\ mmUpstream.status = 200
    /\ mmUpstream.parses
    /\ IsDict(mmUpstream.body)
    /\ IsList(UpPeriods)
    /\ IsDict(UpData) \/ IsList(UpData)

\* the upstream series of a maker is a sequence as long as the periods
SeriesAligned(maker) ==
    /\ maker \in DOMAIN UpData.d
    /\ IsList(UpData.d[maker])
    /\ Len(UpData.d[maker].l) = Len(UpPeriods.l)

\* the upstream position of the j-th returned row
UpstreamPos(j) == Len(UpPeriods.l) - Len(mmRet.rows) + j

\* a value as a number: itself, the number a digit string holds, otherwise 0
NumericOrZero(v) ==
    IF v.t = "num" THEN v
    ELSE IF v.t = "str" /\ IsDigits(v.s) THEN JInt(DigitsValue(v.s))
    ELSE JInt(0)

Min(a, b) == IF a <= b THEN a ELSE b

PeriodRank(cell) == CHOOSE k \in 1..(MaxPeriods + 12) : JStr(PeriodLabel(k)) = cell

\* the row of the table that holds its most recent period
MostRecentRow(df) ==
    CHOOSE r \in 1..Len(df.rows) :
        \A q \in 1..Len(df.rows) : PeriodRank(df.rows[q]["Period"]) <= PeriodRank(df.rows[r]["Period"])

NonIncreasing(rows) == \A i \in 1..Len(rows) : i < Len(rows) => rows[i].Latest >= rows[i + 1].Latest

\* h halves, cut toward zero, is the integer v
IntegerPartOf(v, h) ==
    \/ h >= 0 /\ 2 * v <= h /\ h < 2 * v + 2
    \/ h < 0 /\ 2 * v >= h /\ h > 2 * v - 2

====
